---- MODULE Spec2Model ----
(***************************************************************************)
(* Metric accumulators of ilit/metric/metric.py: the two TopK              *)
(* implementations (MxnetTopK, TensorflowTopK) and TensorflowCOCOMAP.      *)
(*                                                                         *)
(* One evaluation run constructs one metric by name ("topk" or "COCOmAP")  *)
(* and then calls update / reset / result on it.  For "topk" the MXNet and *)
(* the TensorFlow implementation are constructed with the same k and are   *)
(* handed the same calls, so that their states can be compared.            *)
(*                                                                         *)
(* numpy's argsort uses quicksort by default, which is not stable: the      *)
(* order of equal elements depends on the build and on the array size, but *)
(* it is a function of the input.  sort_ties fixes it for one run: equal   *)
(* elements come in index order ("stable") or in reverse index order       *)
(* ("reversed").                                                           *)
(*                                                                         *)
(* Only the order of the scores matters to argsort and to in_top_k, so a   *)
(* score is a level: levels 2 and 3 are two float64 values that round to   *)
(* the same float32 value, and level 4 is infinity.                        *)
(***************************************************************************)
EXTENDS Integers, Sequences, FiniteSets, TLC

\* ------------------------------------------------------------------ bounds
\* Samples accumulated between two resets (caps num_sample).
MaxSamples == 3
\* Ground-truth boxes of one image.
MaxBoxes == 2

\* Class indices of the classifier (class_num = 3).
Classes == {0, 1, 2}
NumClasses == Cardinality(Classes)
\* Sparse label values: the class indices.
LabelValues == Classes
\* Image ids and category ids of the detection inputs.
ImageIds == {1, 2}
Categories == {1, 2}

VARIABLES
    metric,             \* the metric this run constructed: "topk" | "COCOmAP"
    sort_ties,          \* how this build's argsort orders equal elements
    k,                  \* self.k of both TopK instances
    mx_num_correct,     \* MxnetTopK.num_correct
    mx_num_sample,      \* MxnetTopK.num_sample
    tf_num_correct,     \* TensorflowTopK.num_correct
    tf_num_sample,      \* TensorflowTopK.num_sample
    image_ids,          \* TensorflowCOCOMAP.image_ids
    ground_truth_list,  \* TensorflowCOCOMAP.ground_truth_list
    detection_list,     \* TensorflowCOCOMAP.detection_list
    annotation_id,      \* TensorflowCOCOMAP.annotation_id
    last_op,            \* the last call: "init" | "update" | "reset" | "result"
    prev_op,            \* the call before it
    last_err,           \* what the last call raised: "none" | "AssertionError"
    ret,                \* what the last call returned ("none": nothing)
    hist,               \* history of the inputs since the last reset
    registry_metrics,   \* framework -> the dict TENSORFLOW_METRICS / MXNET_METRICS / PYTORCH_METRICS
    instances,          \* the singleton containers created so far -> their metrics dict
    reg_calls,          \* registrations called so far
    reg_last,           \* the last registry call, its arguments and its outcome
    pc,                 \* the statement of load() to run next ("idle": no call in progress)
    env,                \* what the call in progress finds: the files, the torch version
    model,              \* the caller's fp32 model
    model_before,       \* the caller's model as it was when load() was called
    tune_cfg,           \* load(): tune_cfg
    q_mapping,          \* load(): q_mapping
    white_list,         \* load(): white_list
    q_model,            \* load(): q_model
    trace,              \* the calls load() has made so far, in order
    load_out,           \* how the last load() ended: what it raised or returned
    loads,              \* load() calls so far
    heap,               \* the metric objects constructed so far, by id: class and accumulated updates
    wrapped,            \* <<framework, name>> of a wrapper entry -> the id of its _metric
    handles,            \* what each evaluation run holds as its metric
    use_last            \* the last call on a handle and what it returned

reg_vars == <<registry_metrics, instances, reg_calls, reg_last>>

load_vars == <<pc, env, model, model_before, tune_cfg, q_mapping, white_list,
               q_model, trace, load_out, loads>>

use_vars == <<heap, wrapped, handles, use_last>>

vars == <<metric, sort_ties, k, mx_num_correct, mx_num_sample, tf_num_correct,
          tf_num_sample, image_ids, ground_truth_list, detection_list,
          annotation_id, last_op, prev_op, last_err, ret, hist, reg_vars,
          load_vars, use_vars>>

topk_vars == <<mx_num_correct, mx_num_sample, tf_num_correct, tf_num_sample>>
coco_vars == <<image_ids, ground_truth_list, detection_list, annotation_id>>

\* --------------------------------------------------------------- ndarrays
\* An ndarray: its shape and its elements in row-major order.  A Python int
\* (a label given as one number) has the empty shape.
Array(shape, data) == [shape |-> shape, data |-> data]

\* A numpy integer scalar (numpy.int64, an element of a label array): not a
\* Python int, and np.array of it has the empty shape.
NumpyInt(l) == [shape |-> <<>>, data |-> <<l>>, scalar |-> "numpy.int64"]

\* isinstance(a, int).
IsInt(a) == a.shape = <<>> /\ "scalar" \notin DOMAIN a

Size(a) == Len(a.data)

\* labels = [labels] for a Python int, then np.array(labels).
AsArray(a) == IF IsInt(a) THEN Array(<<1>>, a.data) ELSE Array(a.shape, a.data)

\* a.reshape([n, -1]).
Reshape2(a, n) == Array(<<n, Size(a) \div n>>, a.data)

\* Row i (0-based) of a 2-D array, as a function of the column index.
Row(a, i) == [j \in 0..(a.shape[2] - 1) |-> a.data[i * a.shape[2] + j + 1]]

\* Whether argsort puts index d before index c in row r.
SortsBefore(r, d, c) ==
    \/ r[d] < r[c]
    \/ /\ r[d] = r[c]
       /\ IF sort_ties = "stable" THEN d < c ELSE d > c

\* r.argsort() of one row: position -> index, ascending.
ArgsortRow(r) ==
    [pos \in 0..(Cardinality(DOMAIN r) - 1) |->
        CHOOSE c \in DOMAIN r :
            Cardinality({d \in DOMAIN r : SortsBefore(r, d, c)}) = pos]

\* s[-n:] of an argsort result: the set of its last n indices.
LastIdx(s, n) ==
    LET W == Cardinality(DOMAIN s)
    IN  {s[j] : j \in (IF n >= W THEN 0 ELSE W - n)..(W - 1)}

\* ---------------------------------------------------- _topk_shape_validate
\* _topk_shape_validate without its assert statement: the reshape raises
\* when the labels do not divide into N rows, and goes on otherwise.
topk_shape_validate_unasserted(preds, labels) ==
    LET lab == AsArray(labels)
        N   == IF Len(preds.shape) = 1 THEN 1 ELSE preds.shape[1]
        p2  == Reshape2(preds, N)
    IN  IF lab.shape = <<>>
        THEN [err |-> "IndexError", N |-> 0, preds |-> p2, labels |-> <<>>]
        ELSE IF Size(lab) % N # 0
        THEN [err |-> "ValueError", N |-> 0, preds |-> p2, labels |-> <<>>]
        ELSE LET l2 == Reshape2(lab, N)
             IN  [err |-> "none", N |-> N, preds |-> p2,
                  labels |->
                    [i \in 0..(N - 1) |->
                        IF l2.shape[2] # 1
                        THEN CHOOSE c \in LastIdx(ArgsortRow(Row(l2, i)), 1) : TRUE
                        ELSE l2.data[i + 1]]]

\* _topk_shape_validate(preds, labels): the IndexError of labels.shape[0]
\* for labels without an axis, the assertion error, or preds as an
\* N x class_num array and labels as N label indices (one-hot rows reduced
\* by argsort()[..., -1:]).
topk_shape_validate(preds, labels) ==
    LET lab  == AsArray(labels)
        N    == IF Len(preds.shape) = 1 THEN 1 ELSE preds.shape[1]
        p2   == Reshape2(preds, N)
        labN == lab.shape[1]
    IN  IF lab.shape = <<>>
        THEN [err |-> "IndexError", N |-> 0, preds |-> p2, labels |-> <<>>]
        ELSE IF labN # N
        THEN [err |-> "AssertionError", N |-> 0, preds |-> p2, labels |-> <<>>]
        ELSE LET l2 == Reshape2(lab, N)
             IN  [err |-> "none", N |-> N, preds |-> p2,
                  labels |->
                    [i \in 0..(N - 1) |->
                        IF l2.shape[2] # 1
                        THEN CHOOSE c \in LastIdx(ArgsortRow(Row(l2, i)), 1) : TRUE
                        ELSE l2.data[i + 1]]]

\* ------------------------------------------------------------------ TopK
\* tf.constant(preds, dtype=tf.float32): the levels 2 and 3 round to the same
\* float32 value; level 4 is infinity (a score beyond the float32 range).
Float32(s) == IF s = 3 THEN 2 ELSE s

IsFinite(s) == s < 4

\* tf.nn.in_top_k for one row: the target is a class index, every prediction
\* of the row is finite, and fewer than kk classes have a strictly greater
\* prediction.
in_top_k(row, target, kk) ==
    /\ target \in DOMAIN row
    /\ \A c \in DOMAIN row : IsFinite(Float32(row[c]))
    /\ Cardinality({c \in DOMAIN row :
                      Float32(row[c]) > Float32(row[target])}) < kk

\* MxnetTopK.update, lines 270-281: what it adds to num_correct.
MxnetCorrect(v, kk) ==
    Cardinality({i \in 0..(v.N - 1) :
        LET top == LastIdx(ArgsortRow(Row(v.preds, i)), kk)
        IN  IF kk = 1 THEN top = {v.labels[i]} ELSE v.labels[i] \in top})

\* TensorflowTopK.update, lines 314-322: reduce_sum of in_top_k.
TensorflowCorrect(v, kk) ==
    Cardinality({i \in 0..(v.N - 1) :
        in_top_k(Row(v.preds, i), v.labels[i], kk)})

\* An update that counts one sample for each call.
MxnetTopK_update_per_call(preds, labels) ==
    LET v == topk_shape_validate(preds, labels)
    IN  IF v.err # "none"
        THEN [err |-> v.err, num_correct |-> mx_num_correct,
              num_sample |-> mx_num_sample]
        ELSE [err |-> "none",
              num_correct |-> mx_num_correct + MxnetCorrect(v, k),
              num_sample |-> mx_num_sample + 1]

\* MxnetTopK.update: [err, num_correct, num_sample] after the call.
MxnetTopK_update(preds, labels) ==
    LET v == topk_shape_validate(preds, labels)
    IN  IF v.err # "none"
        THEN [err |-> v.err, num_correct |-> mx_num_correct,
              num_sample |-> mx_num_sample]
        ELSE [err |-> "none",
              num_correct |-> mx_num_correct + MxnetCorrect(v, k),
              num_sample |-> mx_num_sample + v.N]

\* An update that counts one sample for each call.
TensorflowTopK_update_per_call(preds, labels) ==
    LET v == topk_shape_validate(preds, labels)
    IN  IF v.err # "none"
        THEN [err |-> v.err, num_correct |-> tf_num_correct,
              num_sample |-> tf_num_sample]
        ELSE [err |-> "none",
              num_correct |-> tf_num_correct + TensorflowCorrect(v, k),
              num_sample |-> tf_num_sample + 1]

\* TensorflowTopK.update: [err, num_correct, num_sample] after the call.
TensorflowTopK_update(preds, labels) ==
    LET v == topk_shape_validate(preds, labels)
    IN  IF v.err # "none"
        THEN [err |-> v.err, num_correct |-> tf_num_correct,
              num_sample |-> tf_num_sample]
        ELSE [err |-> "none",
              num_correct |-> tf_num_correct + TensorflowCorrect(v, k),
              num_sample |-> tf_num_sample + v.N]

\* A result() that clears the counters once it has read them.
MxnetTopK_result_clearing ==
    [value |-> IF mx_num_sample = 0 THEN <<0, 1>>
               ELSE <<mx_num_correct, mx_num_sample>>,
     warned |-> mx_num_sample = 0,
     num_correct |-> 0, num_sample |-> 0]

\* MxnetTopK.result: 0 with a warning for no sample, otherwise
\* num_correct / num_sample, kept as the fraction <<num, den>>; and the
\* fields after the call, which it does not assign.
MxnetTopK_result ==
    [value |-> IF mx_num_sample = 0 THEN <<0, 1>>
               ELSE <<mx_num_correct, mx_num_sample>>,
     warned |-> mx_num_sample = 0,
     num_correct |-> mx_num_correct, num_sample |-> mx_num_sample]

\* TensorflowTopK.result, the same code.
TensorflowTopK_result ==
    [value |-> IF tf_num_sample = 0 THEN <<0, 1>>
               ELSE <<tf_num_correct, tf_num_sample>>,
     warned |-> tf_num_sample = 0,
     num_correct |-> tf_num_correct, num_sample |-> tf_num_sample]

\* A reset() that assigns nothing.
MxnetTopK_reset_nothing ==
    [num_correct |-> mx_num_correct, num_sample |-> mx_num_sample]

\* MxnetTopK.reset / TensorflowTopK.reset: the fields after the call.
MxnetTopK_reset == [num_correct |-> 0, num_sample |-> 0]

TensorflowTopK_reset == [num_correct |-> 0, num_sample |-> 0]

\* ------------------------------------------------------------ the inputs
\* Rows of class_num scores: every row over the three lowest levels, rows
\* whose two best scores are equal only as float32, and rows with an
\* infinite score.
ScoreRows ==
    [1..NumClasses -> {0, 1, 2}]
        \cup {<<3, 2, 0>>, <<2, 3, 0>>, <<0, 2, 3>>, <<4, 1, 0>>, <<0, 1, 4>>}

\* Rows of the two-sample batches: (0.1, 0.2, 0.7) and (0.9, 0.05, 0.05) by
\* their order, and a row with two equal best scores.
PairRows == {<<0, 1, 2>>, <<2, 0, 0>>, <<1, 1, 0>>}

\* One-hot rows, by the class they mark.
OneHot(c) == [j \in 1..NumClasses |-> IF j = c + 1 THEN 1 ELSE 0]

Call(preds, labels) == [preds |-> preds, labels |-> labels]

\* The calls update(preds, labels) whose batch sizes agree: one sample as a
\* 1-D vector with a Python int label, or as a 1 x class_num array with a
\* sparse or a one-hot label; two samples with sparse labels (shape N or
\* N x 1) or one-hot labels.
MatchedCalls ==
    {Call(Array(<<NumClasses>>, r), Array(<<>>, <<l>>)) :
        r \in ScoreRows, l \in LabelValues}
    \cup {Call(Array(<<1, NumClasses>>, r), Array(<<1>>, <<l>>)) :
        r \in ScoreRows, l \in LabelValues}
    \cup {Call(Array(<<1, NumClasses>>, r), Array(<<1, NumClasses>>, OneHot(l))) :
        r \in ScoreRows, l \in Classes}
    \cup UNION {
        {Call(Array(<<2, NumClasses>>, r1 \o r2), Array(<<2>>, <<l1, l2>>)),
         Call(Array(<<2, NumClasses>>, r1 \o r2), Array(<<2, 1>>, <<l1, l2>>)),
         Call(Array(<<2, NumClasses>>, r1 \o r2),
              Array(<<2, NumClasses>>, OneHot(l1) \o OneHot(l2)))} :
        r1 \in PairRows, r2 \in PairRows, l1 \in Classes, l2 \in Classes}

\* Calls whose batch sizes differ, among them a 1-D one-hot label for a 1-D
\* prediction vector (class_num labels for one sample).
MismatchedCalls ==
    {Call(Array(<<NumClasses>>, r), Array(<<2>>, <<0, 1>>)) : r \in PairRows}
    \cup {Call(Array(<<NumClasses>>, r), Array(<<NumClasses>>, OneHot(0))) : r \in PairRows}
    \cup {Call(Array(<<1, NumClasses>>, r), Array(<<2, 1>>, <<0, 1>>)) : r \in PairRows}
    \cup {Call(Array(<<2, NumClasses>>, r \o r), Array(<<>>, <<0>>)) : r \in PairRows}
    \cup {Call(Array(<<2, NumClasses>>, r \o r), Array(<<1>>, <<2>>)) : r \in PairRows}
    \cup {Call(Array(<<2, NumClasses>>, r \o r), Array(<<1, NumClasses>>, OneHot(1))) :
            r \in PairRows}

\* One sample as a 1-D vector or a 1 x class_num array with a numpy integer
\* as its label.
ScalarCalls ==
    {Call(Array(<<NumClasses>>, r), NumpyInt(l)) : r \in PairRows, l \in LabelValues}
    \cup {Call(Array(<<1, NumClasses>>, r), NumpyInt(l)) :
            r \in PairRows, l \in LabelValues}

Calls == MatchedCalls \cup MismatchedCalls \cup ScalarCalls

\* --------------------------------------------------- history of the inputs
\* The batch size of preds and of labels, as the caller passed them.
PredN(preds) == IF Len(preds.shape) = 1 THEN 1 ELSE preds.shape[1]

LabelN(labels) == IF labels.shape = <<>> THEN 1 ELSE labels.shape[1]

\* The scores of sample i (0-based), by class index.
SampleScores(preds, i) ==
    [c \in Classes |-> preds.data[i * NumClasses + c + 1]]

\* The label index of sample i: the sparse label, or the index of the
\* largest entry of its one-hot row.
SampleLabel(labels, i) ==
    LET W == Size(labels) \div LabelN(labels)
    IN  IF W = 1
        THEN labels.data[i + 1]
        ELSE CHOOSE c \in 0..(W - 1) :
                \A d \in 0..(W - 1) : labels.data[i * W + d + 1] <= labels.data[i * W + c + 1]

\* The kk highest-scoring class indices of a row, equal scores ranked by
\* class index, the lower index first.
TopKByIndex(row, kk) ==
    {c \in DOMAIN row :
        Cardinality({d \in DOMAIN row :
            row[d] > row[c] \/ (row[d] = row[c] /\ d < c)}) < kk}

\* hist for "topk":
\*   samples   the samples of the updates since the last reset whose batch
\*             sizes agreed,
\*   by_index  how many of them have their label among the k highest-scoring
\*             classes by TopKByIndex,
\*   mismatch  whether the last call was an update whose batch sizes differ.
\* hist for "COCOmAP":
\*   samples   the updates since the last reset whose image id was new,
\*   boxes     the ground-truth boxes of those updates,
\*   ranges    <<annotation_id at the call, boxes>> of each of those updates,
\*   first     the payload <<ground_truth, detection>> of each of them, by
\*             image id,
\*   dup       whether the last call was an update whose image id was in
\*             image_ids,
\*   differs   whether it was one whose payload differs from the first
\*             submission's,
\*   ever      the image ids of all updates since construction,
\*   reseen    whether the last call was an update, right after a reset, of
\*             an image id submitted before that reset.
\*   each      what MxnetTopK (mx) and TensorflowTopK (tf) add to
\*             num_correct for those samples when each is submitted in an
\*             update call of its own, as a 1 x class_num array with its
\*             label index in an array of shape 1.
\* hist for both:
\*   used      whether some update was accepted since construction.
\* Sample i of a batch as a batch of its own: its scores as a
\* 1 x class_num array, its label index in an array of shape 1.
SamplePreds(preds, i) ==
    Array(<<1, NumClasses>>, SubSeq(preds.data, i * NumClasses + 1, (i + 1) * NumClasses))

SampleLabels(labels, i) == Array(<<1>>, <<SampleLabel(labels, i)>>)

\* What the two implementations add to num_correct for one call.
Corrects(preds, labels) ==
    LET v == topk_shape_validate(preds, labels)
    IN  [mx |-> MxnetCorrect(v, k), tf |-> TensorflowCorrect(v, k)]

\* The sum of Corrects over the first n samples, each as its own batch.
RECURSIVE EachCorrects(_, _, _)
EachCorrects(preds, labels, n) ==
    IF n = 0 THEN [mx |-> 0, tf |-> 0]
    ELSE LET rest == EachCorrects(preds, labels, n - 1)
             one  == Corrects(SamplePreds(preds, n - 1), SampleLabels(labels, n - 1))
         IN  [mx |-> rest.mx + one.mx, tf |-> rest.tf + one.tf]

\* hist after a call update(preds, labels) whose batch sizes agree.
Record(preds, labels) ==
    LET N == PredN(preds)
        each == EachCorrects(preds, labels, N)
    IN  [hist EXCEPT
            !.used = TRUE,
            !.mismatch = FALSE,
            !.each = [mx |-> @.mx + each.mx, tf |-> @.tf + each.tf],
            !.samples  = @ + N,
            !.by_index = @ + Cardinality({i \in 0..(N - 1) :
                SampleLabel(labels, i) \in TopKByIndex(SampleScores(preds, i), k)})]

NoHist == [samples |-> 0, by_index |-> 0, mismatch |-> FALSE, boxes |-> 0,
           ranges |-> <<>>, first |-> <<>>, dup |-> FALSE, differs |-> FALSE,
           ever |-> {}, reseen |-> FALSE, used |-> FALSE,
           each |-> [mx |-> 0, tf |-> 0]]

\* ----------------------------------------------------------- TopK actions
\* update(preds, labels) on both TopK instances (mx and tf are the two
\* calls' outcomes).
TopKUpdate(preds, labels) ==
    /\ metric = "topk"
    /\ (PredN(preds) = LabelN(labels) /\ "scalar" \notin DOMAIN labels)
            => hist.samples + PredN(preds) <= MaxSamples
    /\ \E mx \in {MxnetTopK_update(preds, labels)},
          tf \in {TensorflowTopK_update(preds, labels)} :
        /\ mx_num_correct' = mx.num_correct
        /\ mx_num_sample' = mx.num_sample
        /\ tf_num_correct' = tf.num_correct
        /\ tf_num_sample' = tf.num_sample
        /\ last_err' = [mx |-> mx.err, tf |-> tf.err]
    /\ last_op' = "update"
    /\ prev_op' = last_op
    /\ hist' = IF "scalar" \in DOMAIN labels
               THEN [hist EXCEPT !.mismatch = FALSE]
               ELSE IF PredN(preds) = LabelN(labels) THEN Record(preds, labels)
               ELSE [hist EXCEPT !.mismatch = TRUE]
    /\ ret' = "none"
    /\ UNCHANGED <<metric, sort_ties, k, coco_vars>>
    /\ UNCHANGED <<reg_vars, load_vars, use_vars>>

\* reset() on both TopK instances.
TopKReset ==
    /\ metric = "topk"
    /\ mx_num_correct' = MxnetTopK_reset.num_correct
    /\ mx_num_sample' = MxnetTopK_reset.num_sample
    /\ tf_num_correct' = TensorflowTopK_reset.num_correct
    /\ tf_num_sample' = TensorflowTopK_reset.num_sample
    /\ last_op' = "reset"
    /\ prev_op' = last_op
    /\ last_err' = [mx |-> "none", tf |-> "none"]
    /\ hist' = [NoHist EXCEPT !.used = hist.used]
    /\ ret' = "none"
    /\ UNCHANGED <<metric, sort_ties, k, coco_vars>>
    /\ UNCHANGED <<reg_vars, load_vars, use_vars>>

\* What a result() call returned: the value and whether it warned.
Returned(r) == [value |-> r.value, warned |-> r.warned]

\* result() on both TopK instances.
TopKResult ==
    /\ metric = "topk"
    /\ ret' = [mx |-> Returned(MxnetTopK_result), tf |-> Returned(TensorflowTopK_result)]
    /\ mx_num_correct' = MxnetTopK_result.num_correct
    /\ mx_num_sample' = MxnetTopK_result.num_sample
    /\ tf_num_correct' = TensorflowTopK_result.num_correct
    /\ tf_num_sample' = TensorflowTopK_result.num_sample
    /\ last_op' = "result"
    /\ prev_op' = last_op
    /\ last_err' = [mx |-> "none", tf |-> "none"]
    /\ hist' = [hist EXCEPT !.mismatch = FALSE]
    /\ UNCHANGED <<metric, sort_ties, k, coco_vars>>
    /\ UNCHANGED <<reg_vars, load_vars, use_vars>>

\* ------------------------------------------------------ TensorflowCOCOMAP
\* ExportSingleImageGroundtruthToCoco: one record per ground-truth box, the
\* boxes numbered from next_annotation_id on.
ExportSingleImageGroundtruthToCoco(image_id, next_annotation_id, classes) ==
    [i \in 1..Len(classes) |->
        [id |-> next_annotation_id + i - 1, image_id |-> image_id,
         category_id |-> classes[i]]]

\* ExportSingleImageDetectionBoxesToCoco: one record per detection.
ExportSingleImageDetectionBoxesToCoco(image_id, classes) ==
    [i \in 1..Len(classes) |-> [image_id |-> image_id, category_id |-> classes[i]]]

\* The COCO evaluator's mAP: some function of the ground truth, the image
\* ids and the detections it is given.
COCOEval(gt, ids, det) == <<"mAP", gt, ids, det>>

\* Whether image_id is in self.image_ids.
Seen(image_id) == \E i \in 1..Len(image_ids) : image_ids[i] = image_id

\* An update without the test for a seen image id.
TensorflowCOCOMAP_update_unguarded(detection, ground_truth, image_id) ==
    [image_ids |-> Append(image_ids, image_id),
     ground_truth_list |-> ground_truth_list \o
         ExportSingleImageGroundtruthToCoco(image_id, annotation_id, ground_truth),
     detection_list |-> detection_list \o
         ExportSingleImageDetectionBoxesToCoco(image_id, detection),
     annotation_id |-> annotation_id + Len(ground_truth)]

\* An update that advances annotation_id by one per image.
TensorflowCOCOMAP_update_by_image(detection, ground_truth, image_id) ==
    IF Seen(image_id)
    THEN [image_ids |-> image_ids, ground_truth_list |-> ground_truth_list,
          detection_list |-> detection_list, annotation_id |-> annotation_id]
    ELSE [image_ids |-> Append(image_ids, image_id),
          ground_truth_list |-> ground_truth_list \o
              ExportSingleImageGroundtruthToCoco(image_id, annotation_id, ground_truth),
          detection_list |-> detection_list \o
              ExportSingleImageDetectionBoxesToCoco(image_id, detection),
          annotation_id |-> annotation_id + 1]

\* TensorflowCOCOMAP.update: the fields after the call.  The ground truth
\* is the sequence of its boxes' classes (boxes.shape[0] is its length), the
\* detection the sequence of its boxes' classes.
TensorflowCOCOMAP_update(detection, ground_truth, image_id) ==
    IF Seen(image_id)
    THEN [image_ids |-> image_ids, ground_truth_list |-> ground_truth_list,
          detection_list |-> detection_list, annotation_id |-> annotation_id]
    ELSE [image_ids |-> Append(image_ids, image_id),
          ground_truth_list |-> ground_truth_list \o
              ExportSingleImageGroundtruthToCoco(image_id, annotation_id, ground_truth),
          detection_list |-> detection_list \o
              ExportSingleImageDetectionBoxesToCoco(image_id, detection),
          annotation_id |-> annotation_id + Len(ground_truth)]

\* A reset() that keeps image_ids.
TensorflowCOCOMAP_reset_keeps_ids ==
    [image_ids |-> image_ids, ground_truth_list |-> <<>>, detection_list |-> <<>>,
     annotation_id |-> 1]

\* TensorflowCOCOMAP.reset: the fields after the call.
TensorflowCOCOMAP_reset ==
    [image_ids |-> <<>>, ground_truth_list |-> <<>>, detection_list |-> <<>>,
     annotation_id |-> 1]

\* A result() that tests image_ids instead of ground_truth_list.
TensorflowCOCOMAP_result_by_images ==
    [value |-> IF Len(image_ids) = 0 THEN <<0, 1>>
               ELSE COCOEval(ground_truth_list, image_ids, detection_list),
     warned |-> Len(image_ids) = 0,
     image_ids |-> image_ids, ground_truth_list |-> ground_truth_list,
     detection_list |-> detection_list, annotation_id |-> annotation_id]

\* TensorflowCOCOMAP.result: 0 with a warning for no ground truth, otherwise
\* the evaluator's mAP; and the fields after the call, which it does not
\* assign.
TensorflowCOCOMAP_result ==
    [value |-> IF Len(ground_truth_list) = 0 THEN <<0, 1>>
               ELSE COCOEval(ground_truth_list, image_ids, detection_list),
     warned |-> Len(ground_truth_list) = 0,
     image_ids |-> image_ids, ground_truth_list |-> ground_truth_list,
     detection_list |-> detection_list, annotation_id |-> annotation_id]

\* Whether an image id is in image_ids, as the caller sees the field.
InImageIds(image_id) == image_id \in {image_ids[i] : i \in DOMAIN image_ids}

\* Detections of one image, by the classes of their boxes.
DetectionInputs == {<<>>, <<2, 1>>}

\* Sequences over S of length at most n.
SeqUpTo(S, n) == UNION {[1..m -> S] : m \in 0..n}

\* update(detection, labels) with labels = (ground_truth, image_id).
CocoUpdate(detection, ground_truth, image_id) ==
    \E new \in {TensorflowCOCOMAP_update(detection, ground_truth, image_id)} :
        /\ metric = "COCOmAP"
        /\ image_ids' = new.image_ids
        /\ ground_truth_list' = new.ground_truth_list
        /\ detection_list' = new.detection_list
        /\ annotation_id' = new.annotation_id
        /\ last_op' = "update"
        /\ prev_op' = last_op
        /\ hist' = IF InImageIds(image_id)
                   THEN [hist EXCEPT
                            !.dup = TRUE,
                            !.differs = hist.first[image_id] # <<ground_truth, detection>>,
                            !.reseen = last_op = "reset" /\ image_id \in hist.ever,
                            !.ever = @ \cup {image_id}]
                   ELSE [hist EXCEPT
                            !.used = TRUE,
                            !.samples = @ + 1,
                            !.boxes = @ + Len(ground_truth),
                            !.ranges = Append(@, <<annotation_id, Len(ground_truth)>>),
                            !.first = [i \in (DOMAIN @) \cup {image_id} |->
                                         IF i = image_id THEN <<ground_truth, detection>>
                                         ELSE @[i]],
                            !.dup = FALSE,
                            !.differs = FALSE,
                            !.reseen = last_op = "reset" /\ image_id \in hist.ever,
                            !.ever = @ \cup {image_id}]
        /\ ret' = "none"
        /\ UNCHANGED <<metric, sort_ties, k, topk_vars, last_err>>
        /\ UNCHANGED <<reg_vars, load_vars, use_vars>>

\* reset().
CocoReset ==
    /\ metric = "COCOmAP"
    /\ image_ids' = TensorflowCOCOMAP_reset.image_ids
    /\ ground_truth_list' = TensorflowCOCOMAP_reset.ground_truth_list
    /\ detection_list' = TensorflowCOCOMAP_reset.detection_list
    /\ annotation_id' = TensorflowCOCOMAP_reset.annotation_id
    /\ last_op' = "reset"
    /\ prev_op' = last_op
    /\ hist' = [NoHist EXCEPT !.ever = hist.ever, !.used = hist.used]
    /\ ret' = "none"
    /\ UNCHANGED <<metric, sort_ties, k, topk_vars, last_err>>
    /\ UNCHANGED <<reg_vars, load_vars, use_vars>>

\* result().
CocoResult ==
    /\ metric = "COCOmAP"
    /\ ret' = [coco |-> Returned(TensorflowCOCOMAP_result)]
    /\ image_ids' = TensorflowCOCOMAP_result.image_ids
    /\ ground_truth_list' = TensorflowCOCOMAP_result.ground_truth_list
    /\ detection_list' = TensorflowCOCOMAP_result.detection_list
    /\ annotation_id' = TensorflowCOCOMAP_result.annotation_id
    /\ last_op' = "result"
    /\ prev_op' = last_op
    /\ hist' = [hist EXCEPT !.dup = FALSE, !.differs = FALSE, !.reseen = FALSE]
    /\ UNCHANGED <<metric, sort_ties, k, topk_vars, last_err>>
    /\ UNCHANGED <<reg_vars, load_vars, use_vars>>

\* ------------------------------------------------------------ the registry
\* Registrations called in one run.
MaxRegistrations == 2

Frameworks == {"tensorflow", "mxnet", "pytorch"}

\* The names PyTorchMetrics.__init__ and MXNetMetrics.__init__ start from.
PyTorchBuiltins ==
    {"Accuracy", "Loss", "MeanAbsoluteError", "MeanPairwiseDistance",
     "MeanSquaredError", "topk", "Average", "GeometricAverage",
     "ConfusionMatrix", "IoU", "mIoU", "DiceCoefficient", "MetricsLambda",
     "EpochMetric", "Fbeta", "Precision", "Recall", "RootMeanSquaredError",
     "RunningAverage", "VariableAccumulation", "Frequency"}

MXNetBuiltins ==
    {"Accuracy", "TopKAccuracy", "F1", "MCC", "MAE", "MSE", "RMSE",
     "CrossEntropy", "Perplexity", "NegativeLogLikelihood",
     "PearsonCorrelation", "PCC", "Loss"}

\* A dict is a function from its keys; {} is the function of no key.
EmptyDict == [n \in {} |-> "none"]

\* d.update(e).
DictUpdate(d, e) ==
    [n \in (DOMAIN d) \cup (DOMAIN e) |-> IF n \in DOMAIN e THEN e[n] ELSE d[n]]

\* d[n] = v.
DictSet(d, n, v) == DictUpdate(d, [m \in {n} |-> v])

\* The dict literal of the container's __init__, before update().
BuiltinMetrics(fw) ==
    IF fw = "pytorch" THEN [n \in PyTorchBuiltins |-> "WrapPyTorchMetric"]
    ELSE IF fw = "mxnet" THEN [n \in MXNetBuiltins |-> "WrapMXNetMetric"]
    ELSE EmptyDict

\* The registry dicts once the module is imported: the three decorated
\* classes of the module.
ImportedRegistry ==
    [fw \in Frameworks |->
        IF fw = "tensorflow"
        THEN [n \in {"topk", "COCOmAP"} |->
                IF n = "topk" THEN "TensorflowTopK" ELSE "TensorflowCOCOMAP"]
        ELSE IF fw = "mxnet" THEN [n \in {"topk"} |-> "MxnetTopK"]
        ELSE EmptyDict]

\* framework_metrics[framework](): the @singleton class makes its instance
\* at the first call (builtin names, then update() with the registry dict
\* as it is at that time) and returns that instance ever after.  The
\* instances after the call.
Singleton(fw) ==
    IF fw \in DOMAIN instances THEN instances
    ELSE [b \in (DOMAIN instances) \cup {fw} |->
            IF b = fw THEN DictUpdate(BuiltinMetrics(fw), registry_metrics[fw])
            ELSE instances[b]]

\* fwk.strip() of one piece of framework.split(',').
Strip(piece) ==
    IF piece = " pytorch" THEN "pytorch"
    ELSE IF piece = " mxnet" THEN "mxnet"
    ELSE IF piece = " caffe" THEN "caffe"
    ELSE piece

\* metric_registry(metric_type, framework)(cls), framework given by the
\* pieces of its split(','): the registry dicts after the call and what it
\* raised.  The loop assigns framework by framework and stops at the first
\* that fails.
RECURSIVE decorator_metric(_, _, _, _)
decorator_metric(registry, metric_type, pieces, cls) ==
    IF pieces = <<>> THEN [err |-> "none", registry |-> registry]
    ELSE LET single_framework == Strip(Head(pieces))
         IN  IF single_framework \notin Frameworks
             THEN [err |-> "AssertionError", registry |-> registry]
             ELSE IF metric_type \in DOMAIN registry[single_framework]
             THEN [err |-> "ValueError", registry |-> registry]
             ELSE decorator_metric(
                    [registry EXCEPT ![single_framework] = DictSet(@, metric_type, cls)],
                    metric_type, Tail(pieces), cls)

\* METRICS(framework)[metric_type]: the instances after the call, what it
\* raised, the names its message lists and what it returned.
METRICS_getitem(framework, metric_type) ==
    IF framework \notin Frameworks
    THEN [err |-> "AssertionError", msg |-> {}, ret |-> "none",
          instances |-> instances]
    ELSE LET after == Singleton(framework)
             metrics == after[framework]
         IN  IF metric_type \notin DOMAIN metrics
             THEN [err |-> "AssertionError", msg |-> DOMAIN metrics,
                   ret |-> "none", instances |-> after]
             ELSE [err |-> "none", msg |-> {}, ret |-> metrics[metric_type],
                   instances |-> after]

\* METRICS(framework).register(name, metric_cls): the instances after the
\* call and what it raised.
METRICS_register(framework, name, metric_cls) ==
    IF framework \notin Frameworks
    THEN [err |-> "AssertionError", instances |-> instances]
    ELSE LET after == Singleton(framework)
         IN  IF name \in DOMAIN after[framework]
             THEN [err |-> "AssertionError", instances |-> after]
             ELSE [err |-> "none",
                   instances |-> [after EXCEPT ![framework] = DictSet(@, name, metric_cls)]]

\* The arguments of the calls.
\* "topk" is a builtin name of pytorch and a decorated class of tensorflow
\* and mxnet; "custom" is a name of no framework.
MetricNames == {"topk", "custom"}

MetricClasses == {"UserMetricA", "UserMetricB"}

FrameworkPieces ==
    {<<"tensorflow">>, <<"mxnet">>, <<"pytorch">>, <<"tensorflow", " pytorch">>,
     <<"pytorch", " mxnet">>, <<"pytorch", " caffe">>}

FrameworkArgs == Frameworks \cup {"caffe"}

NoCall == [op |-> "none", name |-> "none", frameworks |-> {}, cls |-> "none",
           err |-> "none", msg |-> {}, ret |-> "none"]

\* The metric accumulators are not in use.
MetricIdle ==
    /\ metric = "none"
    /\ sort_ties = "stable"
    /\ k = 1
    /\ mx_num_correct = 0
    /\ mx_num_sample = 0
    /\ tf_num_correct = 0
    /\ tf_num_sample = 0
    /\ image_ids = <<>>
    /\ ground_truth_list = <<>>
    /\ detection_list = <<>>
    /\ annotation_id = 1
    /\ last_op = "init"
    /\ prev_op = "init"
    /\ last_err = [mx |-> "none", tf |-> "none"]
    /\ ret = "none"
    /\ hist = NoHist

metric_vars == <<metric, sort_ties, k, topk_vars, coco_vars, last_op, prev_op,
                 last_err, ret, hist>>

\* The registry as the import of the module leaves it.
RegistryInit ==
    /\ registry_metrics = ImportedRegistry
    /\ instances = EmptyDict
    /\ reg_calls = 0
    /\ reg_last = NoCall

\* @metric_registry(metric_type, framework) on a class cls.
Decorate(metric_type, pieces, cls) ==
    /\ reg_calls < MaxRegistrations
    /\ \E r \in {decorator_metric(registry_metrics, metric_type, pieces, cls)} :
        /\ registry_metrics' = r.registry
        /\ reg_last' = [op |-> "metric_registry", name |-> metric_type,
                        frameworks |-> {Strip(pieces[i]) : i \in DOMAIN pieces},
                        cls |-> cls, err |-> r.err, msg |-> {}, ret |-> "none"]
    /\ reg_calls' = reg_calls + 1
    /\ UNCHANGED <<instances, metric_vars, load_vars, use_vars>>

\* METRICS(framework).register(name, metric_cls).
Register(framework, name, metric_cls) ==
    /\ reg_calls < MaxRegistrations
    /\ \E r \in {METRICS_register(framework, name, metric_cls)} :
        /\ instances' = r.instances
        /\ reg_last' = [op |-> "register", name |-> name,
                        frameworks |-> {framework}, cls |-> metric_cls,
                        err |-> r.err, msg |-> {}, ret |-> "none"]
    /\ reg_calls' = reg_calls + 1
    /\ UNCHANGED <<registry_metrics, metric_vars, load_vars, use_vars>>

\* METRICS(framework)[metric_type].
Lookup(framework, metric_type) ==
    /\ \E r \in {METRICS_getitem(framework, metric_type)} :
        /\ instances' = r.instances
        /\ reg_last' = [op |-> "lookup", name |-> metric_type,
                        frameworks |-> {framework}, cls |-> "none",
                        err |-> r.err, msg |-> r.msg, ret |-> r.ret]
    /\ UNCHANGED <<registry_metrics, reg_calls, metric_vars, load_vars, use_vars>>


\* ------------------------------------------------- metrics in use
\* Updates accumulated by one metric object.
MaxUpdates == 2

\* The evaluation runs that hold a metric.
Handles == {"a", "b"}

\* The names the runs look up.
UsedNames == {"topk", "COCOmAP", "Accuracy"}

\* An entry of a container that is a Wrap...Metric instance (the builtin
\* entries) and not a class.
IsWrapper(entry) == entry \in {"WrapPyTorchMetric", "WrapMXNetMetric"}

NoRef == [kind |-> "none", key |-> <<>>, id |-> 0]

NoUse == [op |-> "none", handle |-> "none", value |-> 0]

\* The object whose state a handle's update, reset and result act on: the
\* object itself for an instance of a class, self._metric for a wrapper.
Target(ref) == IF ref.kind = "wrapper" THEN wrapped[ref.key] ELSE ref.id

\* A run's handle has a metric.
Constructed(h) == handles[h].kind # "none"

\* What result() returns on a handle.
ResultValue(h) == heap[Target(handles[h])].n

\* Metric.__call__ on a wrapper entry: self._metric = self._metric_cls(...)
\* and return self, the entry of the container.
Metric_call(h, framework, name, entry) ==
    /\ heap' = Append(heap, [cls |-> entry, n |-> 0])
    /\ wrapped' = DictSet(wrapped, <<framework, name>>, Len(heap) + 1)
    /\ handles' = [handles EXCEPT ![h] = [kind |-> "wrapper",
                                          key |-> <<framework, name>>,
                                          id |-> 0]]

\* metric = METRICS(framework)[name](...), once for each run: the lookup,
\* then the call of the entry, which constructs an instance of a class or
\* is Metric.__call__.
Construct(h, framework, name) ==
    /\ ~Constructed(h)
    /\ \E r \in {METRICS_getitem(framework, name)} :
        /\ r.err = "none"
        /\ instances' = r.instances
        /\ IF IsWrapper(r.ret)
           THEN Metric_call(h, framework, name, r.ret)
           ELSE /\ heap' = Append(heap, [cls |-> r.ret, n |-> 0])
                /\ handles' = [handles EXCEPT ![h] = [kind |-> "object",
                                                      key |-> <<framework, name>>,
                                                      id |-> Len(heap) + 1]]
                /\ UNCHANGED wrapped
    /\ use_last' = [op |-> "construct", handle |-> h, value |-> 0]
    /\ UNCHANGED <<registry_metrics, reg_calls, reg_last, metric_vars, load_vars>>

\* metric.update(preds, labels) on a handle.
Update(h) ==
    /\ Constructed(h)
    /\ heap[Target(handles[h])].n < MaxUpdates
    /\ heap' = [heap EXCEPT ![Target(handles[h])].n = @ + 1]
    /\ use_last' = [op |-> "update", handle |-> h, value |-> 0]
    /\ UNCHANGED <<wrapped, handles, metric_vars, reg_vars, load_vars>>

\* metric.reset() on a handle.
Reset(h) ==
    /\ Constructed(h)
    /\ heap' = [heap EXCEPT ![Target(handles[h])].n = 0]
    /\ use_last' = [op |-> "reset", handle |-> h, value |-> 0]
    /\ UNCHANGED <<wrapped, handles, metric_vars, reg_vars, load_vars>>

\* metric.result() on a handle.
Result(h) ==
    /\ Constructed(h)
    /\ use_last' = [op |-> "result", handle |-> h, value |-> ResultValue(h)]
    /\ UNCHANGED <<heap, wrapped, handles, metric_vars, reg_vars, load_vars>>

\* No run holds a metric.
UseIdle ==
    /\ heap = <<>>
    /\ wrapped = [key \in {} |-> 0]
    /\ handles = [h \in Handles |-> NoRef]
    /\ use_last = NoUse


\* ------------------------------------------------------------------ load
\* load() calls in one run.
MaxLoads == 2

\* A Python str is the sequence of its characters.  The code point of a
\* character of a version string.
Digit(c) ==
    CASE c = "0" -> 0 [] c = "1" -> 1 [] c = "2" -> 2 [] c = "3" -> 3
      [] c = "4" -> 4 [] c = "5" -> 5 [] c = "6" -> 6 [] c = "7" -> 7
      [] c = "8" -> 8 [] c = "9" -> 9

Ord(c) == IF c = "." THEN 46 ELSE 48 + Digit(c)

\* a < b for two Python strs: by the first character that differs, a proper
\* prefix first.
RECURSIVE StrLess(_, _)
StrLess(a, b) ==
    IF b = <<>> THEN FALSE
    ELSE IF a = <<>> THEN TRUE
    ELSE IF Head(a) # Head(b) THEN Ord(Head(a)) < Ord(Head(b))
    ELSE StrLess(Tail(a), Tail(b))

\* The literals '1.7' and '1.8' of the comparisons.
V17 == <<"1", ".", "7">>

V18 == <<"1", ".", "8">>

DynamicQuant == "post_training_dynamic_quant"

\* Lines 58-76: q_mapping for a version and an approach.
ResolveMapping(version, approach) ==
    IF approach # DynamicQuant
    THEN IF StrLess(version, V17) THEN "DEFAULT_MODULE_MAPPING"
         ELSE IF StrLess(version, V18) THEN "get_static_quant_module_mappings"
         ELSE "get_default_static_quant_module_mappings"
    ELSE IF StrLess(version, V17) THEN "DEFAULT_DYNAMIC_MODULE_MAPPING"
         ELSE IF StrLess(version, V18) THEN "get_dynamic_quant_module_mappings"
         ELSE "get_default_dynamic_quant_module_mappings"

\* Lines 78-92: white_list for a version and an approach.
ResolveWhiteList(version, approach) ==
    IF StrLess(version, V17)
    THEN IF approach = DynamicQuant THEN "DEFAULT_DYNAMIC_MODULE_MAPPING"
         ELSE "DEFAULT_QCONFIG_PROPAGATE_WHITE_LIST"
    ELSE IF StrLess(version, V18)
    THEN IF approach = DynamicQuant THEN "get_dynamic_quant_module_mappings"
         ELSE "get_qconfig_propagation_list"
    ELSE IF approach = DynamicQuant THEN "get_default_dynamic_quant_module_mappings"
         ELSE "get_default_qconfig_propagation_list"

\* version >= '1.7', line 101.
FxSupported(version) == ~StrLess(version, V17)

\* The parameter keys of the fp32 model, of the model convert_fx makes of
\* it and of the model convert() makes of it once some submodule has a
\* qconfig.
FpKeys == {"fc.weight", "fc.bias"}

FxKeys == {"fc.weight", "fc.bias", "fc_input_scale_0", "fc_input_zero_point_0"}

EagerKeys == {"fc._packed_params", "fc.scale", "fc.zero_point", "quant.scale",
              "quant.zero_point"}

\* torch version strings, as get_torch_version() hands them on.
Versions ==
    {<<"1", ".", "5", ".", "1">>, <<"1", ".", "6", ".", "0">>,
     <<"1", ".", "7", ".", "1">>, <<"1", ".", "8", ".", "0">>,
     <<"1", ".", "9", ".", "1">>, <<"1", ".", "1", "0", ".", "0">>}

Approaches == {"post_training_static_quant", DynamicQuant}

\* What one call finds: whether the two files exist, what the first holds,
\* the keys of the state dict in the second, and the torch version.
Envs ==
    [cfg_exists : BOOLEAN, weights_exists : BOOLEAN, approach : Approaches,
     weights : {FpKeys, FxKeys, EagerKeys}, version : Versions]

NoEnv == [cfg_exists |-> FALSE, weights_exists |-> FALSE, approach |-> "none",
          weights |-> {}, version |-> <<>>]

\* A model: its training flag, its parameter keys, whether it is the
\* caller's object or the copy of which path, and what was done to it.
FreshModel == [training |-> TRUE, keys |-> FpKeys, path |-> "caller",
               qconfig |-> FALSE, observers |-> FALSE, converted |-> FALSE,
               loaded |-> FALSE]

NoModel == [training |-> FALSE, keys |-> {}, path |-> "none",
            qconfig |-> FALSE, observers |-> FALSE, converted |-> FALSE,
            loaded |-> FALSE]

\* No configuration has been read.
NoCfg == [approach |-> "none"]

NoOut == [err |-> "none", file |-> "none", model |-> NoModel]

\* m.eval(): the same object, in evaluation mode.
Eval(m) == [m EXCEPT !.training = FALSE]

\* copy.deepcopy(m) on behalf of a path.
DeepCopy(m, path) == [m EXCEPT !.path = path]

\* m.load_state_dict(weights, strict=False): keys that differ are skipped.
load_state_dict_lenient(m, weights) ==
    [err |-> "none", model |-> [m EXCEPT !.loaded = TRUE]]

\* m.load_state_dict(weights), strict: the error for keys that differ.
load_state_dict(m, weights) ==
    IF m.keys = weights
    THEN [err |-> "none", model |-> [m EXCEPT !.loaded = TRUE]]
    ELSE [err |-> "RuntimeError", model |-> m]

\* trace after one more call of load().
Called(name, detail) == Append(trace, <<name, detail>>)

\* load() ends by raising.
Raise(kind, file, tr) ==
    /\ pc' = "idle"
    /\ load_out' = [err |-> kind, file |-> file, model |-> NoModel]
    /\ trace' = Append(tr, <<"raise", kind>>)

\* load() ends by returning m.
Return(m, tr) ==
    /\ pc' = "idle"
    /\ load_out' = [err |-> "none", file |-> "none", model |-> m]
    /\ trace' = Append(tr, <<"return", m.path>>)

\* The try block is left for its except clause.
Caught(kind, tr) ==
    /\ pc' = "except"
    /\ trace' = Append(tr, <<"caught", kind>>)
    /\ UNCHANGED load_out

load_locals == <<tune_cfg, q_mapping, white_list, q_model>>

\* load(checkpoint_dir, model) is called, with a model in either mode.
LoadCall(e, m) ==
    /\ pc = "idle"
    /\ loads < MaxLoads
    /\ pc' = "check_files"
    /\ env' = e
    /\ model' = m
    /\ model_before' = m
    /\ tune_cfg' = NoCfg
    /\ q_mapping' = "none"
    /\ white_list' = "none"
    /\ q_model' = NoModel
    /\ trace' = <<>>
    /\ load_out' = NoOut
    /\ loads' = loads + 1
    /\ UNCHANGED <<metric_vars, reg_vars, use_vars>>

\* The two assertions in the other order.
CheckFiles_weights_first ==
    /\ pc = "check_files"
    /\ IF ~env.weights_exists
       THEN Raise("AssertionError", "best_model_weights.pt",
                  Called("os.path.exists", "best_model_weights.pt"))
       ELSE IF ~env.cfg_exists
       THEN Raise("AssertionError", "best_configure.yaml",
                  Called("os.path.exists", "best_model_weights.pt")
                    \o <<<<"os.path.exists", "best_configure.yaml">>>>)
       ELSE /\ pc' = "parse"
            /\ trace' = Called("os.path.exists", "best_model_weights.pt")
                            \o <<<<"os.path.exists", "best_configure.yaml">>>>
            /\ UNCHANGED load_out
    /\ UNCHANGED <<env, model, model_before, load_locals, loads>>
    /\ UNCHANGED <<metric_vars, reg_vars, use_vars>>

\* Lines 45-52: the two assertions.
CheckFiles ==
    /\ pc = "check_files"
    /\ IF ~env.cfg_exists
       THEN Raise("AssertionError", "best_configure.yaml",
                  Called("os.path.exists", "best_configure.yaml"))
       ELSE IF ~env.weights_exists
       THEN Raise("AssertionError", "best_model_weights.pt",
                  Called("os.path.exists", "best_configure.yaml")
                    \o <<<<"os.path.exists", "best_model_weights.pt">>>>)
       ELSE /\ pc' = "parse"
            /\ trace' = Called("os.path.exists", "best_configure.yaml")
                            \o <<<<"os.path.exists", "best_model_weights.pt">>>>
            /\ UNCHANGED load_out
    /\ UNCHANGED <<env, model, model_before, load_locals, loads>>
    /\ UNCHANGED <<metric_vars, reg_vars, use_vars>>

\* Lines 54-55: yaml.safe_load of the configuration, which may raise.
ParseConfig ==
    /\ pc = "parse"
    /\ \E parses \in BOOLEAN :
        IF parses
        THEN /\ pc' = "resolve"
             /\ tune_cfg' = [approach |-> env.approach]
             /\ trace' = Called("yaml.safe_load", "best_configure.yaml")
             /\ UNCHANGED load_out
        ELSE /\ Raise("YAMLError", "best_configure.yaml",
                      Called("yaml.safe_load", "best_configure.yaml"))
             /\ UNCHANGED tune_cfg
    /\ UNCHANGED <<env, model, model_before, q_mapping, white_list, q_model, loads>>
    /\ UNCHANGED <<metric_vars, reg_vars, use_vars>>

\* Lines 57-97: the tables for the version and the approach, and op_cfgs.
Resolve ==
    /\ pc = "resolve"
    /\ q_mapping' = ResolveMapping(env.version, tune_cfg.approach)
    /\ white_list' = ResolveWhiteList(env.version, tune_cfg.approach)
    /\ trace' = Called("get_torch_version", "") \o <<<<"_cfg_to_qconfig", "">>>>
    /\ pc' = "try"
    /\ UNCHANGED <<env, model, model_before, tune_cfg, q_model, load_out, loads>>
    /\ UNCHANGED <<metric_vars, reg_vars, use_vars>>

\* Lines 99-102: inside try, the version test, model.eval() and the copy.
FxCopy ==
    /\ pc = "try"
    /\ IF FxSupported(env.version)
       THEN /\ model' = Eval(model)
            /\ q_model' = DeepCopy(Eval(model), "fx")
            /\ trace' = Called("model.eval", "") \o <<<<"copy.deepcopy", "fx">>>>
            /\ pc' = "fx_prepare"
       ELSE /\ pc' = "eager"
            /\ UNCHANGED <<model, q_model, trace>>
    /\ UNCHANGED <<env, model_before, tune_cfg, q_mapping, white_list, load_out, loads>>
    /\ UNCHANGED <<metric_vars, reg_vars, use_vars>>

\* Lines 103-107: _cfgs_to_fx_cfgs, symbolic_trace below 1.8, prepare_fx;
\* tracing and instrumentation may raise.
FxPrepare ==
    /\ pc = "fx_prepare"
    /\ \E traces \in BOOLEAN, prepares \in BOOLEAN :
        LET t1 == Called("_cfgs_to_fx_cfgs", "")
            t2 == IF StrLess(env.version, V18)
                  THEN t1 \o <<<<"symbolic_trace", "">>>> ELSE t1
            t3 == t2 \o <<<<"prepare_fx", "">>>>
        IN  IF StrLess(env.version, V18) /\ ~traces
            THEN Caught("TraceError", t2) /\ UNCHANGED q_model
            ELSE IF ~prepares
            THEN Caught("PrepareFxError", t3) /\ UNCHANGED q_model
            ELSE /\ pc' = "fx_convert"
                 /\ trace' = t3
                 /\ q_model' = [q_model EXCEPT !.qconfig = TRUE, !.observers = TRUE]
                 /\ UNCHANGED load_out
    /\ UNCHANGED <<env, model, model_before, tune_cfg, q_mapping, white_list, loads>>
    /\ UNCHANGED <<metric_vars, reg_vars, use_vars>>

\* Line 108: convert_fx, which may raise.
FxConvert ==
    /\ pc = "fx_convert"
    /\ \E converts \in BOOLEAN :
        IF converts
        THEN /\ pc' = "fx_weights"
             /\ trace' = Called("convert_fx", "")
             /\ q_model' = [q_model EXCEPT !.converted = TRUE, !.keys = FxKeys]
             /\ UNCHANGED load_out
        ELSE Caught("ConvertFxError", Called("convert_fx", "")) /\ UNCHANGED q_model
    /\ UNCHANGED <<env, model, model_before, tune_cfg, q_mapping, white_list, loads>>
    /\ UNCHANGED <<metric_vars, reg_vars, use_vars>>

\* Lines 109-111: the weights are loaded and the model returned, inside try.
FxLoadWeights ==
    /\ pc = "fx_weights"
    /\ \E r \in {load_state_dict(q_model, env.weights)} :
        /\ q_model' = r.model
        /\ IF r.err = "none"
           THEN Return(r.model, Called("torch.load", "") \o <<<<"load_state_dict", "fx">>>>)
           ELSE Caught(r.err, Called("torch.load", "") \o <<<<"load_state_dict", "fx">>>>)
    /\ UNCHANGED <<env, model, model_before, tune_cfg, q_mapping, white_list, loads>>
    /\ UNCHANGED <<metric_vars, reg_vars, use_vars>>

\* An except clause that logs and raises what it caught.
Except_reraise ==
    /\ pc = "except"
    /\ Raise(trace[Len(trace)][2], "none",
             Called("logger.info", "The model can't be convert to fx graph!"))
    /\ UNCHANGED <<env, model, model_before, load_locals, loads>>
    /\ UNCHANGED <<metric_vars, reg_vars, use_vars>>

\* Lines 112-114: except Exception: two logger.info calls.
Except ==
    /\ pc = "except"
    /\ trace' = Called("logger.info", "The model can't be convert to fx graph!")
    /\ pc' = "eager"
    /\ UNCHANGED <<env, model, model_before, load_locals, load_out, loads>>
    /\ UNCHANGED <<metric_vars, reg_vars, use_vars>>

\* An eager path that goes on with the copy the fx path worked on.
EagerCopy_reuses_fx_copy ==
    /\ pc = "eager"
    /\ model' = Eval(model)
    /\ q_model' = IF q_model = NoModel THEN DeepCopy(Eval(model), "eager")
                  ELSE [q_model EXCEPT !.path = "eager"]
    /\ trace' = Called("model.eval", "") \o <<<<"copy.deepcopy", "eager">>>>
    /\ pc' = "propagate"
    /\ UNCHANGED <<env, model_before, tune_cfg, q_mapping, white_list, load_out, loads>>
    /\ UNCHANGED <<metric_vars, reg_vars, use_vars>>

\* Line 116: model.eval() and the copy of the eager path.
EagerCopy ==
    /\ pc = "eager"
    /\ model' = Eval(model)
    /\ q_model' = DeepCopy(Eval(model), "eager")
    /\ trace' = Called("model.eval", "") \o <<<<"copy.deepcopy", "eager">>>>
    /\ pc' = "propagate"
    /\ UNCHANGED <<env, model_before, tune_cfg, q_mapping, white_list, load_out, loads>>
    /\ UNCHANGED <<metric_vars, reg_vars, use_vars>>

\* _propagate_qconfig(q_model, op_cfgs, white_list, approach): some submodule
\* of the copy gets a qconfig (matched) or none does.
propagate_qconfig(m, matched) == [m EXCEPT !.qconfig = matched]

\* The statements of lines 117-124 with add_observer_ or without it, and
\* with a zero match that only warns or that raises.
PropagateSteps(observe, fatal) ==
    /\ pc = "propagate"
    /\ \E matched \in BOOLEAN :
        LET t1 == Called("_propagate_qconfig", white_list)
            t2 == IF matched THEN t1
                  ELSE t1 \o <<<<"logger.warn", "None of the submodule got qconfig applied.">>>>
        IN  IF fatal /\ ~matched
            THEN /\ Raise("ValueError", "none", t1)
                 /\ q_model' = propagate_qconfig(q_model, matched)
            ELSE /\ trace' = IF observe THEN t2 \o <<<<"add_observer_", "">>>> ELSE t2
                 /\ q_model' = [propagate_qconfig(q_model, matched) EXCEPT
                                    !.observers = observe]
                 /\ pc' = "convert"
                 /\ UNCHANGED load_out
    /\ UNCHANGED <<env, model, model_before, tune_cfg, q_mapping, white_list, loads>>
    /\ UNCHANGED <<metric_vars, reg_vars, use_vars>>

\* add_observer_ whatever the approach.
Propagate_always_observes == PropagateSteps(TRUE, FALSE)

\* A zero match that raises.
Propagate_zero_match_fatal == PropagateSteps(tune_cfg.approach # DynamicQuant, TRUE)

\* Lines 117-124: _propagate_qconfig with the white list; the warning when
\* no submodule has a qconfig; add_observer_ unless the approach is dynamic.
Propagate == PropagateSteps(tune_cfg.approach # DynamicQuant, FALSE)

\* Line 125: convert(q_model, mapping=q_mapping, inplace=True), which may
\* raise; it swaps the modules that have a qconfig.
Convert ==
    /\ pc = "convert"
    /\ \E converts \in BOOLEAN :
        IF converts
        THEN /\ pc' = "weights"
             /\ trace' = Called("convert", q_mapping)
             /\ q_model' = [q_model EXCEPT
                                !.converted = TRUE,
                                !.keys = IF q_model.qconfig THEN EagerKeys ELSE FpKeys]
             /\ UNCHANGED load_out
        ELSE Raise("ConvertError", "none", Called("convert", q_mapping))
                /\ UNCHANGED q_model
    /\ UNCHANGED <<env, model, model_before, tune_cfg, q_mapping, white_list, loads>>
    /\ UNCHANGED <<metric_vars, reg_vars, use_vars>>

\* Lines 126-128: the weights are loaded and the model returned.
LoadWeights ==
    /\ pc = "weights"
    /\ \E r \in {load_state_dict(q_model, env.weights)} :
        /\ q_model' = r.model
        /\ IF r.err = "none"
           THEN Return(r.model, Called("torch.load", "") \o <<<<"load_state_dict", "eager">>>>)
           ELSE Raise(r.err, "best_model_weights.pt",
                      Called("torch.load", "") \o <<<<"load_state_dict", "eager">>>>)
    /\ UNCHANGED <<env, model, model_before, tune_cfg, q_mapping, white_list, loads>>
    /\ UNCHANGED <<metric_vars, reg_vars, use_vars>>

\* No load() has been called.
LoadIdle ==
    /\ pc = "idle"
    /\ env = NoEnv
    /\ model_before = FreshModel
    /\ tune_cfg = NoCfg
    /\ q_mapping = "none"
    /\ white_list = "none"
    /\ q_model = NoModel
    /\ trace = <<>>
    /\ load_out = NoOut
    /\ loads = 0

LoadInit ==
    /\ MetricIdle
    /\ RegistryInit
    /\ LoadIdle
    /\ model = FreshModel
    /\ UseIdle

LoadNext ==
    \/ \E e \in Envs, m \in {FreshModel, Eval(FreshModel)} : LoadCall(e, m)
    \/ CheckFiles
    \/ ParseConfig
    \/ Resolve
    \/ FxCopy
    \/ FxPrepare
    \/ FxConvert
    \/ FxLoadWeights
    \/ Except
    \/ EagerCopy
    \/ Propagate
    \/ Convert
    \/ LoadWeights

LoadSpec == LoadInit /\ [][LoadNext]_vars

UseInit == MetricIdle /\ RegistryInit /\ LoadIdle /\ model = FreshModel /\ UseIdle

UseNext ==
    \/ \E h \in Handles, framework \in Frameworks, name \in UsedNames :
            Construct(h, framework, name)
    \/ \E h \in Handles : Update(h)
    \/ \E h \in Handles : Reset(h)
    \/ \E h \in Handles : Result(h)

UseSpec == UseInit /\ [][UseNext]_vars

RegInit == MetricIdle /\ RegistryInit /\ LoadIdle /\ model = FreshModel /\ UseIdle

RegNext ==
    \/ \E metric_type \in MetricNames, pieces \in FrameworkPieces, cls \in MetricClasses :
            Decorate(metric_type, pieces, cls)
    \/ \E framework \in FrameworkArgs, name \in MetricNames, cls \in MetricClasses :
            Register(framework, name, cls)
    \/ \E framework \in FrameworkArgs, metric_type \in MetricNames \cup {"COCOmAP"} :
            Lookup(framework, metric_type)

RegSpec == RegInit /\ [][RegNext]_vars

\* ------------------------------------------------------------------ Init
Init ==
    /\ metric \in {"topk", "COCOmAP"}
    /\ sort_ties \in {"stable", "reversed"}
    /\ k \in 1..NumClasses
    /\ metric = "COCOmAP" => (k = 1 /\ sort_ties = "stable")
    /\ mx_num_correct = 0
    /\ mx_num_sample = 0
    /\ tf_num_correct = 0
    /\ tf_num_sample = 0
    /\ image_ids = <<>>
    /\ ground_truth_list = <<>>
    /\ detection_list = <<>>
    /\ annotation_id = 1
    /\ last_op = "init"
    /\ prev_op = "init"
    /\ last_err = [mx |-> "none", tf |-> "none"]
    /\ ret = "none"
    /\ hist = NoHist
    /\ RegistryInit
    /\ LoadIdle
    /\ model = FreshModel
    /\ UseIdle

Next ==
    \/ \E c \in Calls : TopKUpdate(c.preds, c.labels)
    \/ TopKReset
    \/ TopKResult
    \/ \E image_id \in ImageIds, ground_truth \in SeqUpTo(Categories, MaxBoxes),
          detection \in DetectionInputs :
            CocoUpdate(detection, ground_truth, image_id)
    \/ CocoReset
    \/ CocoResult

Spec == Init /\ [][Next]_vars

\* ------------------------------------------------------------- properties
\* Two fractions <<num, den>> are the same number.
SameFraction(a, b) == a[1] * b[2] = b[1] * a[2]

\* The fraction of the accumulated samples whose label is among the k
\* highest-scoring classes, equal scores ranked by class index.
RateByIndex == <<hist.by_index, hist.samples>>

\* C1: TopK with k = 1: with at least one sample accumulated, result() of
\* MxnetTopK and of TensorflowTopK is the number of accumulated samples whose
\* highest-scoring class index is their label, divided by the number of
\* accumulated samples.
C1_Top1MatchRate ==
    (metric = "topk" /\ k = 1 /\ last_op = "result" /\ hist.samples > 0)
        => /\ SameFraction(ret.mx.value, RateByIndex)
           /\ SameFraction(ret.tf.value, RateByIndex)

\* C2: MxnetTopK with k > 1 counts a sample correct exactly when its label
\* is among the k highest-scoring classes, equal scores ranked by class
\* index, the lower index first.
C2_TopKLowerIndexFirst ==
    (metric = "topk" /\ k > 1) => mx_num_correct = hist.by_index

\* C3: TopK with k = class_num: after one or more updates num_correct =
\* num_sample in both implementations, and result() is 1.
C3_FullClassCount ==
    (metric = "topk" /\ k = NumClasses)
        => /\ mx_num_correct = mx_num_sample
           /\ tf_num_correct = tf_num_sample
           /\ (last_op = "result" /\ hist.samples > 0)
                => /\ SameFraction(ret.mx.value, <<1, 1>>)
                   /\ SameFraction(ret.tf.value, <<1, 1>>)

\* C4: after the same calls MxnetTopK and TensorflowTopK hold the same
\* num_correct and num_sample and return the same result().
C4_Interchangeable ==
    metric = "topk"
        => /\ mx_num_correct = tf_num_correct
           /\ mx_num_sample = tf_num_sample
           /\ last_op = "result" => ret.mx = ret.tf

\* C5: an update whose labels batch size differs from the predictions batch
\* size fails with the assertion error and leaves num_correct and num_sample
\* of the instance as they were.
C5_MismatchLeavesState ==
    [][(metric = "topk" /\ last_op' = "update" /\ hist'.mismatch)
        => /\ last_err'.mx = "AssertionError"
           /\ last_err'.tf = "AssertionError"
           /\ topk_vars' = topk_vars]_vars

C5_Witness ==
    /\ metric = "topk"
    /\ last_op = "update"
    /\ hist.mismatch
    /\ last_err.mx = "AssertionError"
    /\ mx_num_sample > 0
    /\ mx_num_correct > 0

\* A result() call took the zero-sample path: it warned and returned 0.
ZeroSampleDefault(r) == r.value = <<0, 1>> /\ r.warned

\* C6: TopK and COCO mAP: reset() is accepted in every state, and a
\* result() right after a reset() returns the zero-sample default 0,
\* whatever was accumulated before.
C6_ResetThenResult ==
    /\ metric = "topk" => ENABLED TopKReset
    /\ metric = "COCOmAP" => ENABLED CocoReset
    /\ (metric = "topk" /\ prev_op = "reset" /\ last_op = "result")
        => ZeroSampleDefault(ret.mx) /\ ZeroSampleDefault(ret.tf)
    /\ (metric = "COCOmAP" /\ prev_op = "reset" /\ last_op = "result")
        => ZeroSampleDefault(ret.coco)

C6_Witness ==
    /\ metric = "topk"
    /\ prev_op = "reset"
    /\ last_op = "result"
    /\ hist.used
    /\ ZeroSampleDefault(ret.mx)

\* C7: result() assigns no field (num_correct, num_sample; image_ids,
\* ground_truth_list, detection_list, annotation_id), two consecutive
\* result() calls return the same value, and with no accumulated sample
\* result() returns 0.
C7_ResultIsPureRead ==
    /\ [][last_op' = "result"
            => (topk_vars' = topk_vars /\ coco_vars' = coco_vars)]_vars
    /\ [][(last_op = "result" /\ last_op' = "result") => ret' = ret]_vars
    /\ []((metric = "topk" /\ last_op = "result" /\ hist.samples = 0)
            => ZeroSampleDefault(ret.mx) /\ ZeroSampleDefault(ret.tf))
    /\ []((metric = "COCOmAP" /\ last_op = "result" /\ hist.samples = 0)
            => ZeroSampleDefault(ret.coco))

C7_Witness ==
    /\ metric = "topk"
    /\ prev_op = "result"
    /\ last_op = "result"
    /\ hist.samples > 0
    /\ ret.mx.value[1] > 0

\* C8: a COCO mAP update whose image id is already in image_ids changes
\* none of image_ids, ground_truth_list, detection_list, annotation_id,
\* also when its payload differs from the first submission's, and so does
\* not change what result() returns.
C8_DuplicateImageIgnored ==
    [][(metric = "COCOmAP" /\ last_op' = "update" /\ hist'.dup)
        => /\ coco_vars' = coco_vars
           /\ Returned(TensorflowCOCOMAP_result)' = Returned(TensorflowCOCOMAP_result)]_vars

C8_Witness ==
    /\ metric = "COCOmAP"
    /\ last_op = "update"
    /\ hist.dup
    /\ hist.differs
    /\ Len(ground_truth_list) > 0

\* The id ranges handed to the accepted images, in the order of the calls,
\* do not overlap.
RangesDisjoint ==
    \A i, j \in DOMAIN hist.ranges :
        i < j => hist.ranges[i][1] + hist.ranges[i][2] <= hist.ranges[j][1]

\* C9: COCO mAP: annotation_id is 1 plus the number of ground-truth boxes of
\* the accepted images, only reset() decreases it, and the id ranges handed
\* to two accepted images never overlap.
C9_AnnotationIds ==
    /\ [](metric = "COCOmAP"
            => (annotation_id = 1 + hist.boxes /\ RangesDisjoint))
    /\ [][last_op' # "reset" => annotation_id' >= annotation_id]_vars

C9_Witness ==
    /\ metric = "COCOmAP"
    /\ last_op = "update"
    /\ hist.dup
    /\ hist.samples = 2
    /\ hist.boxes >= 3

\* C10: COCO mAP reset() leaves image_ids, ground_truth_list and
\* detection_list empty and annotation_id 1, and the next update of an image
\* id seen before the reset is accepted and recorded.
C10_ResetToConstructed ==
    /\ [][(metric = "COCOmAP" /\ last_op' = "reset")
            => /\ image_ids' = <<>>
               /\ ground_truth_list' = <<>>
               /\ detection_list' = <<>>
               /\ annotation_id' = 1]_vars
    /\ [][(metric = "COCOmAP" /\ last_op' = "update" /\ hist'.reseen)
            => /\ ~hist'.dup
               /\ Len(image_ids') = 1
               /\ image_ids'[1] \in hist.ever
               /\ annotation_id' = 1 + hist'.boxes]_vars

C10_Witness ==
    /\ metric = "COCOmAP"
    /\ last_op = "update"
    /\ hist.reseen
    /\ Len(image_ids) = 1
    /\ Len(ground_truth_list) > 0

\* C11: COCO mAP result() returns 0 with a warning, and not the evaluator's
\* value, exactly when ground_truth_list is empty, also when images were
\* accepted and detections recorded and no image had a ground-truth box.
C11_ZeroIffNoGroundTruth ==
    (metric = "COCOmAP" /\ last_op = "result")
        => /\ ZeroSampleDefault(ret.coco) <=> Len(ground_truth_list) = 0
           /\ Len(ground_truth_list) # 0
                => ret.coco = [value |-> COCOEval(ground_truth_list, image_ids,
                                                  detection_list),
                               warned |-> FALSE]
           /\ hist.boxes = 0 => ZeroSampleDefault(ret.coco)

C11_Witness ==
    /\ metric = "COCOmAP"
    /\ last_op = "result"
    /\ hist.samples > 0
    /\ hist.boxes = 0
    /\ Len(detection_list) > 0
    /\ ZeroSampleDefault(ret.coco)

\* The names that exist for a framework: its builtin names, the names in its
\* registry dict and the names in its container.
RegisteredNames(fw) ==
    (DOMAIN BuiltinMetrics(fw)) \cup (DOMAIN registry_metrics[fw])
        \cup (IF fw \in DOMAIN instances THEN DOMAIN instances[fw] ELSE {})

\* The entries a lookup for a framework draws from.
Entries(fw) == Singleton(fw)[fw]

\* C12: a registration (decorator or METRICS.register) of a name that exists
\* for a framework of its list, as a builtin name or by an earlier
\* registration of either kind, fails, and no existing entry of a framework
\* is ever replaced.
C12_NamesUniquePerBackend ==
    [][/\ (/\ reg_calls' # reg_calls
           /\ \E fw \in reg_last'.frameworks \cap Frameworks :
                reg_last'.name \in RegisteredNames(fw))
            => reg_last'.err # "none"
       /\ \A fw \in Frameworks : \A n \in DOMAIN Entries(fw) :
            /\ n \in DOMAIN Entries(fw)'
            /\ Entries(fw)'[n] = Entries(fw)[n]]_vars

\* C13: a lookup of a name that is not registered for the framework fails
\* with the assertion error whose message lists the names registered for
\* that framework, and no lookup changes the entries of the registry.
C13_UnknownLookup ==
    [][(reg_last'.op = "lookup" /\ reg_last'.frameworks \subseteq Frameworks)
        => /\ \A fw \in reg_last'.frameworks :
                reg_last'.name \notin RegisteredNames(fw)
                    => /\ reg_last'.err = "AssertionError"
                       /\ reg_last'.msg = RegisteredNames(fw)
           /\ registry_metrics' = registry_metrics
           /\ \A fw \in Frameworks : Entries(fw)' = Entries(fw)]_vars

\* The numbers of a version string, between the dots.
RECURSIVE Fields(_, _, _)
Fields(s, cur, acc) ==
    IF s = <<>> THEN Append(acc, cur)
    ELSE IF Head(s) = "." THEN Fields(Tail(s), 0, Append(acc, cur))
    ELSE Fields(Tail(s), cur * 10 + Digit(Head(s)), acc)

\* version comes before major.minor as an ordered version.
OrderedBefore(version, major, minor) ==
    LET r == Fields(version, 0, <<>>)
    IN  r[1] < major \/ (r[1] = major /\ r[2] < minor)

Bracket(version) ==
    IF OrderedBefore(version, 1, 7) THEN "legacy"
    ELSE IF OrderedBefore(version, 1, 8) THEN "intermediate"
    ELSE "current"

BracketMapping(bracket, approach) ==
    IF approach # DynamicQuant
    THEN CASE bracket = "legacy" -> "DEFAULT_MODULE_MAPPING"
           [] bracket = "intermediate" -> "get_static_quant_module_mappings"
           [] bracket = "current" -> "get_default_static_quant_module_mappings"
    ELSE CASE bracket = "legacy" -> "DEFAULT_DYNAMIC_MODULE_MAPPING"
           [] bracket = "intermediate" -> "get_dynamic_quant_module_mappings"
           [] bracket = "current" -> "get_default_dynamic_quant_module_mappings"

BracketWhiteList(bracket, approach) ==
    IF approach = DynamicQuant
    THEN BracketMapping(bracket, approach)
    ELSE CASE bracket = "legacy" -> "DEFAULT_QCONFIG_PROPAGATE_WHITE_LIST"
           [] bracket = "intermediate" -> "get_qconfig_propagation_list"
           [] bracket = "current" -> "get_default_qconfig_propagation_list"

\* Tables have been resolved for the current call.
Resolved == q_mapping # "none"

\* C14: the tables load() resolves are those of the bracket the version
\* falls in as an ordered version (1.10 > 1.9 > 1.8 > 1.7 > 1.6): legacy
\* below 1.7, intermediate from 1.7 to below 1.8, current from 1.8 on, for
\* the module mapping and the white list and for both approaches.
C14_OrderedVersionBrackets ==
    Resolved =>
        /\ q_mapping = BracketMapping(Bracket(env.version), tune_cfg.approach)
        /\ white_list = BracketWhiteList(Bracket(env.version), tune_cfg.approach)

\* C15: no tables are resolved for a version older than the oldest bracket
\* boundary, 1.7: such a call ends with the unsupported-version error.
C15_OldVersionRejected ==
    /\ Resolved => ~OrderedBefore(env.version, 1, 7)
    /\ (pc = "idle" /\ loads > 0 /\ env.cfg_exists /\ env.weights_exists
            /\ load_out.err # "YAMLError" /\ OrderedBefore(env.version, 1, 7))
        => load_out.err = "UnsupportedVersionError"

\* The names of the calls in trace.
CallNames == {trace[i][1] : i \in 1..Len(trace)}

MissingFile ==
    IF ~env.cfg_exists THEN "best_configure.yaml" ELSE "best_model_weights.pt"

\* C16: with best_configure.yaml or best_model_weights.pt absent, load()
\* ends with an AssertionError that names the missing file, the
\* configuration file when both are absent, and has by then done nothing
\* but test that the files exist: nothing parsed, no table resolved, the
\* model neither put in evaluation mode nor copied.
C16_MissingFileFirst ==
    /\ (pc \notin {"idle", "check_files"}) => (env.cfg_exists /\ env.weights_exists)
    /\ (pc = "idle" /\ loads > 0 /\ ~(env.cfg_exists /\ env.weights_exists)) =>
        /\ load_out.err = "AssertionError"
        /\ load_out.file = MissingFile
        /\ CallNames \subseteq {"os.path.exists", "raise"}
        /\ tune_cfg = NoCfg
        /\ ~Resolved
        /\ white_list = "none"
        /\ q_model = NoModel

C16_Witness ==
    /\ pc = "idle"
    /\ loads > 0
    /\ ~env.cfg_exists
    /\ ~env.weights_exists
    /\ load_out.err = "AssertionError"
    /\ load_out.file = "best_configure.yaml"

\* C17: when a call of load() ends, by returning or by raising, the
\* caller's model is what it was when the call began, its training flag
\* included.
C17_ModelUntouched ==
    [][(pc # "idle" /\ pc' = "idle") => model' = model_before]_vars

FxFailures == {"TraceError", "PrepareFxError", "ConvertFxError"}

\* C18: a failure of symbolic_trace, prepare_fx or convert_fx is followed by
\* the log entry and then by the first step of the eager path, model.eval()
\* and the eager copy, and load() never ends with such a failure.
C18_FxFailureFallsBack ==
    /\ load_out.err \notin FxFailures
    /\ \A i \in 1..Len(trace) :
        (trace[i][1] = "caught" /\ trace[i][2] \in FxFailures) =>
            /\ pc # "idle" \/ i + 3 <= Len(trace)
            /\ (i = Len(trace)) => pc = "except"
            /\ (i + 1 <= Len(trace)) => trace[i + 1][1] = "logger.info"
            /\ (i + 1 = Len(trace)) => pc = "eager"
            /\ (i + 3 <= Len(trace)) =>
                /\ trace[i + 2] = <<"model.eval", "">>
                /\ trace[i + 3] = <<"copy.deepcopy", "eager">>

C18_Witness ==
    /\ pc = "idle"
    /\ load_out.err = "none"
    /\ load_out.model.path = "eager"
    /\ \E i \in 1..Len(trace) : trace[i] = <<"caught", "ConvertFxError">>

\* C19: on both paths a load_state_dict that finds the keys of the
\* converted model different from those of the persisted weights ends the
\* call with that error at once; it is never caught.
C19_WeightMismatchFatal ==
    /\ \A i \in 1..Len(trace) : trace[i] # <<"caught", "RuntimeError">>
    /\ \A i \in 1..(Len(trace) - 1) :
        trace[i][1] = "load_state_dict" =>
            trace[i + 1] \in {<<"raise", "RuntimeError">>, <<"return", trace[i][2]>>}

\* load() has returned a model.
ReturnedModel == pc = "idle" /\ loads > 0 /\ load_out.err = "none"

\* C20: a model load() returns, on either path, has had the weights loaded
\* and has exactly the keys of the persisted weights.
C20_ReturnedModelLoaded ==
    ReturnedModel =>
        /\ load_out.model.path \in {"fx", "eager"}
        /\ load_out.model.converted
        /\ load_out.model.loaded
        /\ load_out.model.keys = env.weights

C20_Witness ==
    /\ ReturnedModel
    /\ load_out.model.path = "fx"
    /\ load_out.model.keys = FxKeys
    /\ load_out.model.loaded

\* The graph-capture path was begun in the current call.
FxAttempted == \E i \in 1..Len(trace) : trace[i] = <<"copy.deepcopy", "fx">>

\* C21: the fx path is begun only for a version that is 1.7 or later as an
\* ordered version, and never when the approach read from the
\* configuration is dynamic quantization: a model returned for that
\* approach is the eager path's.
C21_PathSelection ==
    /\ FxAttempted => ~OrderedBefore(env.version, 1, 7)
    /\ tune_cfg.approach = DynamicQuant =>
        /\ ~FxAttempted
        /\ ReturnedModel => load_out.model.path = "eager"

\* The names of the calls from position i of trace on, the closing raise or
\* return left out.
NamesFrom(i) ==
    LET last == IF trace[Len(trace)][1] \in {"raise", "return"}
                THEN Len(trace) - 1 ELSE Len(trace)
    IN  [j \in 1..(last - i + 1) |-> trace[i + j - 1][1]]

IsPrefix(a, b) == Len(a) <= Len(b) /\ \A j \in 1..Len(a) : a[j] = b[j]

\* The calls of the eager path from the propagation on, for a propagation
\* that matched or not and an approach that takes observers or not.
EagerSteps(matched, observe) ==
    <<"_propagate_qconfig">>
        \o (IF matched THEN <<>> ELSE <<"logger.warn">>)
        \o (IF observe THEN <<"add_observer_">> ELSE <<>>)
        \o <<"convert", "torch.load", "load_state_dict">>

\* C22: on the eager path the calls come in this order, on the copy made
\* for the path: _propagate_qconfig with the resolved white list, the
\* zero-match warning, add_observer_, convert with the resolved mapping
\* table, the weight loading; add_observer_ is called exactly when the
\* approach is not dynamic quantization, and before convert.
C22_EagerOrder ==
    /\ \A i \in 1..Len(trace) :
        trace[i][1] = "_propagate_qconfig" =>
            /\ trace[i][2] = white_list
            /\ i > 1 /\ trace[i - 1] = <<"copy.deepcopy", "eager">>
            /\ q_model.path = "eager"
            /\ \E matched \in BOOLEAN :
                IsPrefix(NamesFrom(i),
                         EagerSteps(matched, tune_cfg.approach # DynamicQuant))
    /\ \A i \in 1..Len(trace) :
        trace[i][1] = "convert" => trace[i][2] = q_mapping
    /\ pc \in {"convert", "weights"} =>
        q_model.observers = (tune_cfg.approach # DynamicQuant)

C22_Witness ==
    /\ ReturnedModel
    /\ load_out.model.path = "eager"
    /\ tune_cfg.approach # DynamicQuant
    /\ load_out.model.observers
    /\ \E i \in 1..Len(trace) :
        /\ trace[i][1] = "_propagate_qconfig"
        /\ NamesFrom(i) = EagerSteps(TRUE, TRUE)

\* The propagation of the current call left no submodule with a qconfig.
ZeroMatch ==
    /\ \E i \in 1..Len(trace) : trace[i][1] = "_propagate_qconfig"
    /\ ~q_model.qconfig

\* C23: when no submodule has a qconfig after the propagation, load() warns
\* and goes on: add_observer_ unless the approach is dynamic, then convert,
\* then the weight loading; the call fails only if convert or
\* load_state_dict fails.
C23_ZeroMatchWarnsOnly ==
    \A i \in 1..Len(trace) :
        (trace[i][1] = "_propagate_qconfig" /\ ZeroMatch) =>
            /\ i < Len(trace) /\ trace[i + 1][1] = "logger.warn"
            /\ pc # "idle" => pc \in {"convert", "weights"}
            /\ (tune_cfg.approach # DynamicQuant) =>
                (i + 1 < Len(trace) /\ trace[i + 2][1] = "add_observer_")
            /\ (tune_cfg.approach = DynamicQuant /\ i + 1 < Len(trace)) =>
                trace[i + 2][1] = "convert"
            /\ pc = "idle" =>
                /\ \E j \in (i + 2)..Len(trace) : trace[j][1] = "convert"
                /\ load_out.err \in {"none", "ConvertError", "RuntimeError"}
                /\ load_out.err = "RuntimeError" => q_model.keys # env.weights
                /\ load_out.err = "none" =>
                    \E j \in (i + 2)..Len(trace) : trace[j][1] = "load_state_dict"

C23_Witness ==
    /\ ReturnedModel
    /\ ZeroMatch
    /\ tune_cfg.approach # DynamicQuant
    /\ load_out.model.observers
    /\ load_out.model.loaded

FxCalls == {"_cfgs_to_fx_cfgs", "symbolic_trace", "prepare_fx", "convert_fx"}

EagerCalls == {"_propagate_qconfig", "logger.warn", "add_observer_", "convert"}

\* C30: a model returned by the fx path comes from a call that made no
\* call of the eager path; the eager path begins, after every call of a
\* failed fx attempt, with a copy of the caller's model that carries no
\* qconfig, no observer and no converted module, and the model it returns
\* has none of the fx model's keys.
C30_OnePath ==
    /\ (ReturnedModel /\ load_out.model.path = "fx") =>
        /\ CallNames \cap EagerCalls = {}
        /\ \A i \in 1..Len(trace) : trace[i] # <<"copy.deepcopy", "eager">>
    /\ pc = "propagate" =>
        /\ q_model = DeepCopy(model, "eager")
        /\ q_model.keys = FpKeys
        /\ ~q_model.qconfig /\ ~q_model.observers /\ ~q_model.converted
        /\ trace[Len(trace)] = <<"copy.deepcopy", "eager">>
    /\ \A i \in 1..Len(trace) :
        trace[i] = <<"copy.deepcopy", "eager">> =>
            \A j \in i..Len(trace) : trace[j][1] \notin FxCalls
    /\ (ReturnedModel /\ load_out.model.path = "eager") =>
        /\ load_out.model.keys \in {EagerKeys, FpKeys}
        /\ load_out.model.keys = EagerKeys <=> load_out.model.qconfig
    /\ Cardinality({i \in 1..Len(trace) : trace[i][1] = "return"}) <= 1

C30_Witness ==
    /\ ReturnedModel
    /\ load_out.model.path = "eager"
    /\ load_out.model.keys = EagerKeys
    /\ "prepare_fx" \in CallNames
    /\ \E i \in 1..Len(trace) : trace[i][1] = "caught"

\* What result() returns for num_correct correct samples of num_sample.
ResultOf(num_correct, num_sample) ==
    IF num_sample = 0 THEN <<0, 1>> ELSE <<num_correct, num_sample>>

\* C24: num_sample is the number of samples of the successful updates
\* since the last reset and num_correct is what the same samples add when
\* each is submitted in an update call of its own, so that num_correct,
\* num_sample and result() do not depend on how the samples were split
\* into batches.
C24_PlainSum ==
    metric = "topk" =>
        /\ mx_num_sample = hist.samples
        /\ tf_num_sample = hist.samples
        /\ mx_num_correct = hist.each.mx
        /\ tf_num_correct = hist.each.tf
        /\ last_op = "result" =>
            /\ ret.mx.value = ResultOf(hist.each.mx, hist.samples)
            /\ ret.tf.value = ResultOf(hist.each.tf, hist.samples)

\* One update of two samples, one of them correct, right after a reset.
C24_Witness ==
    /\ metric = "topk"
    /\ prev_op = "reset"
    /\ last_op = "update"
    /\ hist.samples = 2
    /\ mx_num_sample = 2
    /\ mx_num_correct = 1
    /\ tf_num_correct = 1

\* The calls update(preds, labels) of one sample with a single integer as
\* its label, a Python int or a numpy integer.
SingleIntegerCalls ==
    {Call(p, l) : p \in {Array(<<NumClasses>>, <<0, 1, 2>>),
                         Array(<<1, NumClasses>>, <<0, 1, 2>>)},
                  l \in {Array(<<>>, <<2>>), NumpyInt(2)}}

\* C25: one-hot labels of shape N x class_num, and sparse labels of shape
\* N x 1, change num_correct and num_sample as the samples' label indices
\* in an array do, and in every state an update of one sample with a single
\* integer as its label is accepted as a batch of one.
C25_LabelNormalisation ==
    metric = "topk" =>
        /\ <<mx_num_correct, mx_num_sample>> = <<hist.each.mx, hist.samples>>
        /\ <<tf_num_correct, tf_num_sample>> = <<hist.each.tf, hist.samples>>
        /\ \A c \in SingleIntegerCalls :
            /\ MxnetTopK_update(c.preds, c.labels).err = "none"
            /\ MxnetTopK_update(c.preds, c.labels).num_sample = mx_num_sample + 1
            /\ TensorflowTopK_update(c.preds, c.labels).err = "none"
            /\ TensorflowTopK_update(c.preds, c.labels).num_sample = tf_num_sample + 1

\* C29: in both TopK implementations 0 <= num_correct <= num_sample in
\* every state, whatever updates succeeded or failed; num_sample decreases
\* only by reset(); result() returns a value from 0 to 1.
C29_CountsInRange ==
    /\ [](metric = "topk" =>
            /\ 0 <= mx_num_correct /\ mx_num_correct <= mx_num_sample
            /\ 0 <= tf_num_correct /\ tf_num_correct <= tf_num_sample)
    /\ [][(metric = "topk" /\ last_op' # "reset") =>
            /\ mx_num_sample' >= mx_num_sample
            /\ tf_num_sample' >= tf_num_sample]_vars
    /\ []((metric = "topk" /\ last_op = "result") =>
            /\ 0 <= ret.mx.value[1] /\ ret.mx.value[1] <= ret.mx.value[2]
            /\ 0 <= ret.tf.value[1] /\ ret.tf.value[1] <= ret.tf.value[2])

C29_Witness ==
    /\ metric = "topk"
    /\ last_op = "update"
    /\ last_err.tf # "none"
    /\ 0 < tf_num_correct
    /\ tf_num_correct < tf_num_sample
    /\ tf_num_sample = MaxSamples

\* C26: a metric_registry call that fails, for a name that exists for a
\* framework of its list or for a framework that is not one of tensorflow,
\* mxnet, pytorch, leaves the registry dict of every framework as it was.
C26_RegistrationAllOrNothing ==
    [][(/\ reg_calls' # reg_calls
        /\ reg_last'.op = "metric_registry"
        /\ reg_last'.err # "none")
        => registry_metrics' = registry_metrics]_vars

\* C27: a lookup of a name that a metric_registry call has registered for the
\* framework returns the registered class, also when the framework's
\* container was made before the registration; a successful
\* METRICS.register adds the entry to the lookups of its framework and
\* changes those of no other framework.
C27_RegistrationVisible ==
    [][/\ (/\ reg_last'.op = "lookup"
           /\ reg_last'.frameworks \subseteq Frameworks
           /\ \A fw \in reg_last'.frameworks :
                reg_last'.name \in DOMAIN registry_metrics[fw])
            => \A fw \in reg_last'.frameworks :
                /\ reg_last'.err = "none"
                /\ reg_last'.ret = registry_metrics[fw][reg_last'.name]
       /\ (/\ reg_calls' # reg_calls
           /\ reg_last'.op = "register"
           /\ reg_last'.err = "none")
            => \A fw \in Frameworks :
                IF fw \in reg_last'.frameworks
                THEN /\ reg_last'.name \in DOMAIN Entries(fw)'
                     /\ Entries(fw)'[reg_last'.name] = reg_last'.cls
                ELSE Entries(fw)' = Entries(fw)]_vars

\* C28: for two handles constructed for the same name and framework, an
\* update or a reset on one does not change what result() returns on the
\* other, for the decorated classes and for the builtin wrapper entries.
C28_IndependentAccumulators ==
    [][\A h \in Handles : \A g \in Handles \ {h} :
        (/\ use_last'.op \in {"update", "reset"}
         /\ use_last'.handle = h
         /\ Constructed(g)
         /\ handles[g].key = handles[h].key)
            => ResultValue(g)' = ResultValue(g)]_vars

====
